---- MODULE Spec2Model ----
(***************************************************************************)
(* Model of download_lfs.py: process_directory walks a directory tree,     *)
(* sniffs every small file for the Git-LFS pointer signature and hands     *)
(* each pointer to download_lfs_file, which streams the HTTP body over the *)
(* file in 8192-byte chunks.                                               *)
(*                                                                         *)
(* Byte strings are kept as sequences of spans [b, lo, hi]: the bytes      *)
(* lo+1 .. hi of the named byte string b.  Adjacent spans that continue    *)
(* each other are merged, so two contents are equal exactly when they are  *)
(* the same bytes.  Lengths are real byte counts, so the 1024-byte size    *)
(* threshold and the 8192-byte chunk size keep their values.               *)
(* Paths and URLs are sequences of one-character strings.                  *)
(***************************************************************************)
EXTENDS Integers, Sequences, FiniteSets, TLC

\* ------------------------------------------------------------------ bounds
\* number of times the program is run against the same root
MaxRuns == 2

\* ------------------------------------------------------- program constants
\* os.path.getsize(filepath) < 1024
SizeThreshold == 1024
\* response.read(8192)
ChunkSize == 8192
\* len('version https://git-lfs.github.com/spec/v1')
SigLen == 42
\* if response.status == 200
StatusOK == 200

\* ------------------------------------------------------- named byte strings
\* len: byte count; sig: the bytes start with the LFS signature string;
\* bad: offset of the first byte that does not decode as text (0: none)
Blob ==
  [ ptr     |-> [len |-> 127,   sig |-> TRUE,  bad |-> 0],
    ptr1023 |-> [len |-> 1023,  sig |-> TRUE,  bad |-> 0],
    bigptr  |-> [len |-> 1024,  sig |-> TRUE,  bad |-> 0],
    sigbin  |-> [len |-> 60,    sig |-> TRUE,  bad |-> 50],
    txt     |-> [len |-> 10,    sig |-> FALSE, bad |-> 0],
    hello   |-> [len |-> 5,     sig |-> FALSE, bad |-> 0],
    nothing |-> [len |-> 0,     sig |-> FALSE, bad |-> 0],
    full    |-> [len |-> 8192,  sig |-> FALSE, bad |-> 1],
    big     |-> [len |-> 10000, sig |-> FALSE, bad |-> 1] ]

Min(a, b) == IF a < b THEN a ELSE b

\* the whole of byte string b
Whole(b) ==
  IF Blob[b].len = 0 THEN << >> ELSE << [b |-> b, lo |-> 0, hi |-> Blob[b].len] >>

\* len(content)
RECURSIVE Size(_)
Size(c) == IF c = << >> THEN 0 ELSE (Head(c).hi - Head(c).lo) + Size(Tail(c))

\* bytes c followed by bytes d
Cat(c, d) ==
  IF c = << >> THEN d
  ELSE IF d = << >> THEN c
  ELSE LET l == c[Len(c)]
           h == Head(d)
       IN IF l.b = h.b /\ l.hi = h.lo
          THEN SubSeq(c, 1, Len(c) - 1) \o << [b |-> l.b, lo |-> l.lo, hi |-> h.hi] >> \o Tail(d)
          ELSE c \o d

\* the n bytes of c that follow its first pos bytes (fewer at the end)
RECURSIVE Slice(_, _, _)
Slice(c, pos, n) ==
  IF c = << >> \/ n = 0 THEN << >>
  ELSE LET s == Head(c)
           l == s.hi - s.lo
       IN IF pos >= l THEN Slice(Tail(c), pos - l, n)
          ELSE LET take == Min(n, l - pos)
               IN Cat(<< [b |-> s.b, lo |-> s.lo + pos, hi |-> s.lo + pos + take] >>,
                      Slice(Tail(c), 0, n - take))

\* f.read() of a file opened in text mode succeeds: every byte decodes
Decodable(c) ==
  \A i \in 1..Len(c) :
     Blob[c[i].b].bad = 0 \/ Blob[c[i].b].bad <= c[i].lo \/ Blob[c[i].b].bad > c[i].hi

\* content.startswith('version https://git-lfs.github.com/spec/v1')
StartsWithSig(c) ==
  /\ c # << >>
  /\ Blob[Head(c).b].sig
  /\ Head(c).lo = 0
  /\ Head(c).hi >= SigLen

\* ------------------------------------------------------------ paths, URLs
\* the alphabet of the file names; a path or URL is a sequence of characters
Unreserved == {"a", "b", "c", "d", "i", "n", ".", "~"}

\* root_dir and base_url, the arguments of process_directory
root_dir == << "/", "r" >>
base_url == << "h", "t", "t", "p", "s", ":", "/", "/", "x", "/", "y" >>

\* os.sep
sep == "/"

\* the regular files and other directory entries under root_dir, each by
\* the names on its way down from the root: "a b/c.bin" and "d#%~"
Tree ==
  << << << "a", " ", "b" >>, << "c", ".", "b", "i", "n" >> >>,
     << << "d", "#", "%", "~" >> >> >>

Files == 1..Len(Tree)

\* os.path.join(dirpath, filename)
Join(dirpath, name) ==
  IF dirpath # << >> /\ dirpath[Len(dirpath)] = sep THEN dirpath \o name
  ELSE dirpath \o << sep >> \o name

\* the path os.walk and os.path.join give the entry with these names
RECURSIVE PathOf(_, _)
PathOf(dirpath, names) ==
  IF names = << >> THEN dirpath ELSE PathOf(Join(dirpath, Head(names)), Tail(names))

\* filepath = os.path.join(dirpath, filename)
FilePath(f) == PathOf(root_dir, Tree[f])

\* os.path.relpath(filepath, root_dir), for a filepath below root_dir
RelPath(filepath, start) ==
  LET n == IF start[Len(start)] = sep THEN Len(start) ELSE Len(start) + 1
  IN SubSeq(filepath, n + 1, Len(filepath))

\* rel_path.split(os.sep)
RECURSIVE Split(_, _)
Split(s, c) ==
  IF \A i \in 1..Len(s) : s[i] # c THEN << s >>
  ELSE LET k == CHOOSE i \in 1..Len(s) : s[i] = c /\ \A j \in 1..(i - 1) : s[j] # c
       IN << SubSeq(s, 1, k - 1) >> \o Split(SubSeq(s, k + 1, Len(s)), c)

\* the percent-encoding of one character: urllib.parse.quote leaves the
\* unreserved characters and its default safe character '/' alone
QuoteChar(ch) ==
  IF ch \in Unreserved \cup {"/"} THEN << ch >>
  ELSE CASE ch = " " -> << "%", "2", "0" >>
         [] ch = "#" -> << "%", "2", "3" >>
         [] ch = "%" -> << "%", "2", "5" >>

\* urllib.parse.quote(part)
RECURSIVE Quote(_)
Quote(part) == IF part = << >> THEN << >> ELSE QuoteChar(Head(part)) \o Quote(Tail(part))

\* "/".join(parts)
RECURSIVE JoinSlash(_)
JoinSlash(parts) ==
  IF Len(parts) = 1 THEN Head(parts)
  ELSE Head(parts) \o << "/" >> \o JoinSlash(Tail(parts))

\* the relative path put into the URL as it is
EncodedPathUnquoted(rel_path) == rel_path

\* "/".join([urllib.parse.quote(part) for part in rel_path.split(os.sep)])
EncodedPath(rel_path) ==
  LET parts == Split(rel_path, sep)
  IN JoinSlash([i \in 1..Len(parts) |-> Quote(parts[i])])

\* download_url = f"{base_url}/{encoded_path}"
DownloadUrl(filepath) ==
  base_url \o << "/" >> \o EncodedPath(RelPath(filepath, root_dir))

\* os.walk(root_dir): the files of a directory come together, before the
\* files of its subdirectories, in the order the filesystem lists them
DirOf(f) == SubSeq(Tree[f], 1, Len(Tree[f]) - 1)
IsPrefix(s, t) == Len(s) <= Len(t) /\ SubSeq(t, 1, Len(s)) = s
WalkOrders ==
  { o \in [Files -> Files] :
      /\ \A f \in Files : \E i \in Files : o[i] = f
      /\ \A i, j \in Files :
            (DirOf(o[i]) # DirOf(o[j]) /\ IsPrefix(DirOf(o[i]), DirOf(o[j]))) => i < j
      /\ \A i, j, k \in Files :
            (i < j /\ j < k /\ DirOf(o[i]) = DirOf(o[k])) => DirOf(o[j]) = DirOf(o[i]) }

\* ------------------------------------------------------------------ state
VARIABLES
  fs,     \* the directory entries under root_dir: kind, permissions, content
  order,  \* the order in which os.walk yields the entries
  run,    \* how many runs of process_directory have started
  pc,     \* "idle", "walk", "request", "stream", "done" or "crashed"
  idx,    \* position of the walk in order
  body,   \* the response body being streamed
  pos,    \* how many bytes of body response.read has handed out
  fs0,    \* fs when the current run started
  exam,   \* per entry, the examinations of this run: size seen, opened, pointer
  req,    \* per entry, the URLs requested in this run
  resp,   \* per entry, the responses received in this run: status and body
  log,    \* the messages printed in this run
  prev    \* pc, fs, exam, req, resp and log at the end of the run before

vars == << fs, order, run, pc, idx, body, pos, fs0, exam, req, resp, log, prev >>

\* a readable and writable file, a read-only file, a file that cannot be opened
Perms == {"rw", "r", "-"}

RegularFile(b, perm) == [kind |-> "file", perm |-> perm, content |-> Whole(b)]

\* a symbolic link whose target is missing: os.walk lists it with the files
Dangling == [kind |-> "dangling", perm |-> "-", content |-> << >>]

\* what an entry can be when the program is first run
InitEntries ==
  { RegularFile("ptr", "rw"), RegularFile("ptr", "r"), RegularFile("ptr", "-"),
    RegularFile("ptr1023", "rw"), RegularFile("bigptr", "rw"), RegularFile("bigptr", "-"),
    RegularFile("sigbin", "rw"), RegularFile("txt", "rw"), RegularFile("nothing", "rw"),
    Dangling }

\* what the server can answer: a status and the byte string of the body
Responses ==
  { [status |-> 500, body |-> "hello"] } \cup
  { [status |-> StatusOK, body |-> b] : b \in {"hello", "ptr", "nothing", "full", "big"} }

\* the answers urlopen raises as HTTPError, and a request left unanswered
HttpErrors == { a \in Responses : a.status >= 400 }
NoAnswer == [status |-> 0, body |-> "nothing"]

\* how many bytes of a chunk reach the disk when its write fails
PartialWrites == {0, 100}

None == [f \in Files |-> << >>]

Init ==
  /\ fs \in [Files -> InitEntries]
  /\ order \in WalkOrders
  /\ run = 0
  /\ pc = "idle"
  /\ idx = 1
  /\ body = << >>
  /\ pos = 0
  /\ fs0 = fs
  /\ exam = None
  /\ req = None
  /\ resp = None
  /\ log = << >>
  /\ prev = [pc |-> "idle", fs |-> fs, exam |-> None, req |-> None, resp |-> None, log |-> << >>]

\* the entry the walk is at
Cur == order[idx]

\* ------------------------------------------------------- process_directory
\* os.path.getsize(filepath)
GetSize(entry) == Size(entry.content)

\* the size test with the threshold itself let through
IsCandidateInclusive(size) == size <= SizeThreshold

\* if os.path.getsize(filepath) < 1024
IsCandidate(size) == size < SizeThreshold

\* with open(filepath, 'r') as f: content = f.read()  raises nothing
CanReadText(entry) == entry.perm # "-" /\ Decodable(entry.content)

\* the sniffing as it would be on the raw bytes, with nothing decoded
IsPointerBinary(entry) == entry.perm # "-" /\ StartsWithSig(entry.content)

\* the try block reaches download_lfs_file
IsPointer(entry) == CanReadText(entry) /\ StartsWithSig(entry.content)

\* __main__ calls process_directory(repo_path, hf_url); the program is run
\* again after a run has ended
StartRun ==
  /\ pc \in {"idle", "done", "crashed"}
  /\ run < MaxRuns
  /\ run' = run + 1
  /\ pc' = "walk"
  /\ idx' = 1
  /\ fs0' = fs
  /\ exam' = None
  /\ req' = None
  /\ resp' = None
  /\ log' = << >>
  /\ prev' = IF run = 0 THEN prev
             ELSE [pc |-> pc, fs |-> fs, exam |-> exam, req |-> req, resp |-> resp, log |-> log]
  /\ UNCHANGED << fs, order, body, pos >>

\* one pass of the loop body up to the call of download_lfs_file
Examine ==
  /\ pc = "walk"
  /\ idx <= Len(order)
  /\ LET f == Cur
         entry == fs[f]
         filepath == FilePath(f)
     IN IF entry.kind = "dangling"
        THEN \* os.path.getsize raises outside the try block
             /\ pc' = "crashed"
             /\ exam' = [exam EXCEPT ![f] = Append(@, [size |-> -1, opened |-> FALSE, pointer |-> FALSE])]
             /\ UNCHANGED << idx, req, log >>
        ELSE IF ~IsCandidate(GetSize(entry))
        THEN /\ exam' = [exam EXCEPT ![f] = Append(@, [size |-> GetSize(entry), opened |-> FALSE, pointer |-> FALSE])]
             /\ idx' = idx + 1
             /\ UNCHANGED << pc, req, log >>
        ELSE IF ~IsPointer(entry)
        THEN \* open or read raised and was swallowed, or startswith is False
             /\ exam' = [exam EXCEPT ![f] = Append(@, [size |-> GetSize(entry), opened |-> TRUE, pointer |-> FALSE])]
             /\ idx' = idx + 1
             /\ UNCHANGED << pc, req, log >>
        ELSE /\ exam' = [exam EXCEPT ![f] = Append(@, [size |-> GetSize(entry), opened |-> TRUE, pointer |-> TRUE])]
             /\ req' = [req EXCEPT ![f] = Append(@, DownloadUrl(filepath))]
             /\ log' = Append(log, [msg |-> "Downloading", file |-> f])
             /\ pc' = "request"
             /\ UNCHANGED idx
  /\ UNCHANGED << fs, order, run, body, pos, fs0, resp, prev >>

\* os.walk is exhausted: process_directory returns
FinishWalk ==
  /\ pc = "walk"
  /\ idx > Len(order)
  /\ pc' = "done"
  /\ UNCHANGED << fs, order, run, idx, body, pos, fs0, exam, req, resp, log, prev >>

\* ------------------------------------------------------- download_lfs_file
\* the status test as a truth test of the status
AcceptsAny(status) == status # 0

\* if response.status == 200
Accepts(status) == status = StatusOK

\* the file opened for appending: its content stays
OpenAB(content) == content

\* open(filepath, 'wb') leaves the file empty
OpenWB(content) == << >>

\* a write that starts over at the beginning of the file
WriteOver(content, chunk) == chunk

\* f.write(chunk)
Write(content, chunk) == Cat(content, chunk)

\* chunk = response.read(8192)
ReadChunk(stream, at) == Slice(stream, at, ChunkSize)

\* urlopen raising with the file already opened for writing
UrlopenRaisesAfterOpen ==
  /\ pc = "request"
  /\ \E a \in HttpErrors \cup {NoAnswer} :
       resp' = IF a = NoAnswer THEN resp ELSE [resp EXCEPT ![Cur] = Append(@, a)]
  /\ fs' = [fs EXCEPT ![Cur].content = << >>]
  /\ log' = Append(log, [msg |-> "Failed", file |-> Cur])
  /\ pc' = "walk"
  /\ idx' = idx + 1
  /\ UNCHANGED << order, run, body, pos, fs0, exam, req, prev >>

\* urllib.request.urlopen raises: there is no answer (no connection, DNS
\* failure), or the default opener turns an error status into an HTTPError
UrlopenRaises ==
  /\ pc = "request"
  /\ \E a \in HttpErrors \cup {NoAnswer} :
       resp' = IF a = NoAnswer THEN resp ELSE [resp EXCEPT ![Cur] = Append(@, a)]
  /\ log' = Append(log, [msg |-> "Failed", file |-> Cur])
  /\ pc' = "walk"
  /\ idx' = idx + 1
  /\ UNCHANGED << fs, order, run, body, pos, fs0, exam, req, prev >>

\* urlopen returns a response; on status 200 the file is opened for writing
Respond ==
  /\ pc = "request"
  /\ \E response \in Responses :
       /\ resp' = [resp EXCEPT ![Cur] = Append(@, response)]
       /\ IF ~Accepts(response.status)
          THEN /\ log' = Append(log, [msg |-> "Failed", file |-> Cur])
               /\ pc' = "walk"
               /\ idx' = idx + 1
               /\ UNCHANGED << fs, body, pos >>
          ELSE IF fs[Cur].perm # "rw"
          THEN \* open(filepath, 'wb') raises
               /\ log' = Append(log, [msg |-> "Failed", file |-> Cur])
               /\ pc' = "walk"
               /\ idx' = idx + 1
               /\ UNCHANGED << fs, body, pos >>
          ELSE /\ fs' = [fs EXCEPT ![Cur].content = OpenWB(@)]
               /\ body' = Whole(response.body)
               /\ pos' = 0
               /\ pc' = "stream"
               /\ UNCHANGED << idx, log >>
  /\ UNCHANGED << order, run, fs0, exam, req, prev >>

\* one turn of the while loop: read a chunk, stop at the end, else write it
CopyChunk ==
  /\ pc = "stream"
  /\ LET chunk == ReadChunk(body, pos)
     IN IF chunk = << >>
        THEN /\ log' = Append(log, [msg |-> "Success", file |-> Cur])
             /\ pc' = "walk"
             /\ idx' = idx + 1
             /\ body' = << >>
             /\ pos' = 0
             /\ UNCHANGED fs
        ELSE /\ fs' = [fs EXCEPT ![Cur].content = Write(@, chunk)]
             /\ pos' = pos + Size(chunk)
             /\ UNCHANGED << pc, idx, body, log >>
  /\ UNCHANGED << order, run, fs0, exam, req, resp, prev >>

\* response.read or f.write raises in the loop: the connection drops, or the
\* disk fills after k bytes of the chunk
StreamRaises ==
  /\ pc = "stream"
  /\ \E k \in PartialWrites :
       LET chunk == ReadChunk(body, pos)
       IN /\ k < Size(chunk)
          /\ fs' = [fs EXCEPT ![Cur].content = Write(@, Slice(chunk, 0, k))]
  /\ log' = Append(log, [msg |-> "Failed", file |-> Cur])
  /\ pc' = "walk"
  /\ idx' = idx + 1
  /\ body' = << >>
  /\ pos' = 0
  /\ UNCHANGED << order, run, fs0, exam, req, resp, prev >>

Next ==
  \/ StartRun
  \/ Examine
  \/ FinishWalk
  \/ UrlopenRaises
  \/ Respond
  \/ CopyChunk
  \/ StreamRaises

Spec == Init /\ [][Next]_vars

\* ----------------------------------------------------------- properties
\* a run of process_directory has ended, by returning or by an exception
RunEnded == pc \in {"done", "crashed"}

\* the message m was printed for entry f in this run
Printed(l, m, f) == \E i \in 1..Len(l) : l[i] = [msg |-> m, file |-> f]

\* the responses entry f received in this run
Answers(r, f) == { r[f][i] : i \in 1..Len(r[f]) }

\* entry f was a regular file when this run started
Regular(f) == fs0[f].kind = "file"

\* C1: when the server answers a pointer file's request with a status other
\* than 200, the file keeps the content it had when the run started and a
\* failure message is printed for it.
C1_Non200LeavesFile ==
  \A f \in Files :
     (\E a \in Answers(resp, f) : a.status # 200) =>
        /\ fs[f] = fs0[f]
        /\ Printed(log, "Failed", f)

C1_Witness ==
  /\ pc = "done"
  /\ \E f \in Files :
        /\ [status |-> 500, body |-> "hello"] \in Answers(resp, f)
        /\ fs[f].content = Whole("ptr")
        /\ Printed(log, "Failed", f)

\* download_lfs_file has returned for entry f in this run
Finished(f) == req[f] # << >> /\ (RunEnded \/ pc = "walk")

FixedContent ==
  /\ \A f \in Files :
        /\ ~Printed(prev.log, "Failed", f)
        /\ ~Printed(log, "Failed", f)
        /\ \A a \in Answers(prev.resp, f) \cup Answers(resp, f) : a.status = 200
        /\ \A a \in Answers(prev.resp, f) : \A c \in Answers(resp, f) : a = c

C4_SmallFileClassified ==
  \A f \in Files :
     (Regular(f) /\ exam[f] # << >> /\ Size(fs0[f].content) < 1024) =>
        /\ exam[f][1].opened
        /\ (req[f] # << >>) <=>
              /\ fs0[f].perm # "-"
              /\ Decodable(fs0[f].content)
              /\ StartsWithSig(fs0[f].content)

C4_Witness ==
  \E f, g \in Files :
     /\ fs0[f].content = Whole("ptr1023") /\ req[f] # << >>
     /\ fs0[g].content = Whole("sigbin") /\ exam[g] # << >> /\ req[g] = << >>

\* C5: a file of 1024 bytes or more is never opened and never requested,
\* and examining it does not end the run, even when it cannot be opened.
C5_LargeFileNeverOpened ==
  \A f \in Files :
     (Regular(f) /\ Size(fs0[f].content) >= 1024) =>
        /\ \A i \in 1..Len(exam[f]) : ~exam[f][i].opened /\ ~exam[f][i].pointer
        /\ req[f] = << >>
        /\ ~(pc = "crashed" /\ Cur = f)
        /\ fs[f] = fs0[f]

C5_Witness ==
  /\ pc = "done"
  /\ \E f, g \in Files :
        /\ fs0[f] = RegularFile("bigptr", "-") /\ exam[f] # << >>
        /\ fs0[g] = RegularFile("bigptr", "rw") /\ exam[g] # << >>

\* the URL the spec gives the entry with these names
RECURSIVE QuotedNames(_)
QuotedNames(names) ==
  IF Len(names) = 1 THEN Quote(Head(names))
  ELSE Quote(Head(names)) \o << "/" >> \o QuotedNames(Tail(names))

\* C6: every requested URL is base_url, '/', and the names of the file's
\* relative path, each percent-encoded on its own, joined with '/'; the
\* file /r/a b/c.bin is requested as https://x/y/a%20b/c.bin.
C6_UrlBuilt ==
  /\ \A f \in Files : \A i \in 1..Len(req[f]) :
        req[f][i] = base_url \o << "/" >> \o QuotedNames(Tree[f])
  /\ \A i \in 1..Len(req[1]) :
        req[1][i] = << "h", "t", "t", "p", "s", ":", "/", "/", "x", "/", "y", "/",
                       "a", "%", "2", "0", "b", "/", "c", ".", "b", "i", "n" >>

C6_Witness == req[1] # << >> /\ req[2] # << >>

\* C7 as stated: no error ends the run early, and a run that ends has
\* examined every entry.
C7_NoErrorHaltsRun ==
  /\ pc # "crashed"
  /\ pc = "done" => \A f \in Files : exam[f] # << >>

\* C8 as stated: when a run has ended, every regular file was examined
\* exactly once and requested at most once.
C8_ExaminedExactlyOnce ==
  RunEnded =>
     \A f \in Files :
        /\ Regular(f) => Len(exam[f]) = 1
        /\ Len(req[f]) <= 1

\* C9 as stated: a pointer file whose download failed in the run before is
\* requested again by a run that examines it, and a 200 answer that is
\* copied without error leaves it with the served content.
C9_RerunRecovers ==
  (run >= 2 /\ pc = "done") =>
     \A f \in Files :
        (prev.req[f] # << >> /\ Printed(prev.log, "Failed", f)) =>
           /\ req[f] # << >>
           /\ \A a \in Answers(resp, f) :
                 (a.status = 200 /\ ~Printed(log, "Failed", f)) =>
                    fs[f].content = Whole(a.body)

\* C10: a run changes no entry except the content of a file it classified
\* as a pointer and for which it received a 200 answer.
C10_FrameOfRun ==
  /\ DOMAIN fs = DOMAIN fs0
  /\ \A f \in Files :
        /\ fs[f].kind = fs0[f].kind
        /\ fs[f].perm = fs0[f].perm
        /\ fs[f] # fs0[f] =>
              /\ \E i \in 1..Len(exam[f]) : exam[f][i].pointer
              /\ \E a \in Answers(resp, f) : a.status = 200

C10_Witness ==
  /\ pc = "done"
  /\ \E f, g \in Files :
        /\ fs[f] # fs0[f]
        /\ fs0[g].content = Whole("ptr") /\ req[g] # << >>
        /\ Answers(resp, g) = {} /\ fs[g] = fs0[g]

====
